---- MODULE Spec2Model ----
(***************************************************************************)
(* Model of imapsync.py: one-way synchronisation of an IMAP source mailbox *)
(* onto a destination mailbox.  The two mail servers are modelled as       *)
(* in-memory mailboxes behind the IMAPClient operations the program calls  *)
(* (list_folders, create_folder, select_folder, search, fetch, append,     *)
(* logout).  Each connection attempt may fail, and up to MaxFaults of the  *)
(* operations issued inside the folder loop of one invocation may raise;   *)
(* logout does not fail.  The program is run MaxRuns times in sequence     *)
(* (one process after the other) and nothing but the program touches the   *)
(* mailboxes.                                                              *)
(***************************************************************************)
EXTENDS Integers, Sequences, FiniteSets, TLC

VARIABLES
    srcList,            \* source server: folder listing (names, listing order)
    srcBox,             \* source server: folder name -> sequence of messages
    dstList,            \* destination server: folder listing
    dstBox,             \* destination server: folder name -> sequence of messages
    run,                \* number of program invocations started so far
    pc,                 \* position of the running invocation
    dry_run,            \* args.dry_run of the running invocation
    imap_client1,       \* source session: "none" | "open" | "closed"
    imap_client2,       \* destination session: "none" | "open" | "closed"
    folders,            \* sync_imap_accounts: result of imap_client1.list_folders()
    fi,                 \* index of folder_name in folders (position of the for loop)
    target_message_ids, \* sync_imap_accounts: index built for the current folder
    items,              \* sync_imap_accounts: result of imap_client1.fetch(...)
    mi,                 \* position of the message loop in items
    calls,              \* the IMAP operations issued by the invocation, in order
    log,                \* the records the invocation handed to the logger
    failed,             \* the operations that raised during the invocation
    indexLog,           \* per folder pass, the index get_message_ids returned
    prev,               \* TRUE iff the previous invocation was a non-dry run in
                        \* which no operation failed
    exitStatus          \* exit status of the process (-1 while it runs)

vars == <<srcList, srcBox, dstList, dstBox, run, pc, dry_run, imap_client1,
          imap_client2, folders, fi, target_message_ids, items, mi, calls,
          log, failed, indexLog, prev, exitStatus>>

(***************************************************************************)
(* Bounds of the model.                                                    *)
(***************************************************************************)
MaxRuns    == 2     \* program invocations in sequence
MaxFolders == 2     \* length of the source folder listing
MaxSrcMsgs == 2     \* messages in the source mailbox at the start
MaxDstMsgs == 1     \* messages in the destination mailbox at the start
MaxFaults  == 1     \* operations on an open session that fail in one invocation

FolderNames == {"INBOX", "Work"}

(***************************************************************************)
(* Messages.  A raw message (RFC822 bytes) is its sequence of header       *)
(* fields <<name, value>>; a stored message is the raw bytes and a set of  *)
(* flags.                                                                  *)
(***************************************************************************)
None == "None"

RawA     == << <<"Message-ID", "<a@x>">> >>
RawB     == << <<"Subject", "hi">>, <<"message-id", "<b@x>">> >>
RawNoId  == << <<"Subject", "hi">> >>
RawEmpty == << <<"Message-ID", "">> >>

Messages ==
    { [raw |-> RawA,     flags |-> {"\\Seen"}],
      [raw |-> RawB,     flags |-> {}],
      [raw |-> RawNoId,  flags |-> {"\\Seen"}],
      [raw |-> RawEmpty, flags |-> {}] }

\* Header field names compare without regard to case.
Lower(name) ==
    CASE name = "Message-ID" -> "message-id"
      [] name = "Subject"    -> "subject"
      [] OTHER               -> name

\* email.message_from_bytes: the parsed message is the header sequence.
message_from_bytes(raw) == raw

\* msg[name]: the value of the first header field of that name, None if there
\* is none.
GetItem(msg, name) ==
    LET hits == {i \in 1..Len(msg) : Lower(msg[i][1]) = Lower(name)}
    IN  IF hits = {} THEN None
        ELSE msg[CHOOSE i \in hits : \A j \in hits : i <= j][2]

\* The identity key of a raw message: msg['Message-ID'] of the parsed bytes
\* (lines 80-81 and 148-149).
Identity(raw) == GetItem(message_from_bytes(raw), "Message-ID")

\* Mutant of Truthy: only None is false.
Truthy_none_only(v) == v # None

\* Python truth of a header value: None and the empty string are false.
Truthy(v) == v # None /\ v # ""

SeqsUpTo(S, n) == UNION {[1..k -> S] : k \in 0..n}

Range(s) == {s[i] : i \in 1..Len(s)}

RECURSIVE SetToSeq(_)
SetToSeq(S) ==
    IF S = {} THEN <<>>
    ELSE LET x == CHOOSE y \in S : TRUE IN <<x>> \o SetToSeq(S \ {x})

RECURSIVE Total(_, _)
Total(box, S) ==
    IF S = {} THEN 0
    ELSE LET f == CHOOSE g \in S : TRUE IN Len(box[f]) + Total(box, S \ {f})

\* A mailbox whose folders outside `listed` hold nothing and that holds at
\* most n messages.
Boxes(listed, n) ==
    {b \in [FolderNames -> SeqsUpTo(Messages, n)] :
        /\ \A f \in FolderNames \ listed : b[f] = <<>>
        /\ Total(b, FolderNames) <= n}

(***************************************************************************)
(* Records of the call trace and of the logger.                            *)
(***************************************************************************)
NoMsg == [raw |-> <<>>, flags |-> {}]

Call(ep, op, pass, folder, m) ==
    [ep |-> ep, op |-> op, pass |-> pass, folder |-> folder,
     raw |-> m.raw, flags |-> m.flags]

Entry(level, ev, pass, folder, msgid) ==
    [level |-> level, ev |-> ev, pass |-> pass, folder |-> folder, msgid |-> msgid]

\* A failed operation; `injected` is FALSE for a failure the mailbox state
\* itself causes (selecting a folder that does not exist).
Fail(ep, op, pass, injected) ==
    [ep |-> ep, op |-> op, pass |-> pass, injected |-> injected]

\* The server may fail one more operation of the folder loop of this
\* invocation; connecting and logging out may fail whatever has failed before.
CanFail ==
    Cardinality({f \in failed : f.injected /\ f.op \notin {"connect", "logout"}})
        < MaxFaults

\* The folder names are interchangeable: the first listed folder is INBOX.
SrcListings ==
    {s \in SeqsUpTo(FolderNames, MaxFolders) : s = <<>> \/ s[1] = "INBOX"}

Init ==
    /\ srcList \in SrcListings
    /\ srcBox \in Boxes(Range(srcList), MaxSrcMsgs)
    /\ \E S \in SUBSET FolderNames :
          /\ dstList = SetToSeq(S)
          /\ dstBox \in Boxes(S, MaxDstMsgs)
    /\ run = 0
    /\ pc = "start"
    /\ dry_run = FALSE
    /\ imap_client1 = "none"
    /\ imap_client2 = "none"
    /\ folders = <<>>
    /\ fi = 0
    /\ target_message_ids = {}
    /\ items = <<>>
    /\ mi = 0
    /\ calls = <<>>
    /\ log = <<>>
    /\ failed = {}
    /\ indexLog = <<>>
    /\ prev = FALSE
    /\ exitStatus = -1


(***************************************************************************)
(* connect_to_imap: the session, or None ("none") when connecting or       *)
(* logging in raises.                                                      *)
(***************************************************************************)
connect_to_imap(reachable) == IF reachable THEN "open" ELSE "none"

\* Lines 45, 48 and 52: what connect_to_imap logs for one attempt.
ConnectLog(host, reachable) ==
    << Entry("INFO", "connecting", 0, host, 0),
       IF reachable THEN Entry("INFO", "connected", 0, host, 0)
                    ELSE Entry("ERROR", "connect-failed", 0, host, 0) >>

\* Mutant of BothConnected: one session is enough.
BothConnected_either(c1, c2) == c1 # "none" \/ c2 # "none"

\* Line 110: `imap_client1 and imap_client2`.
BothConnected(c1, c2) == c1 # "none" /\ c2 # "none"

(***************************************************************************)
(* get_message_ids on the destination.  `fault` names the operation the    *)
(* server makes fail ("none": no injected failure); selecting a folder the *)
(* listing does not hold fails by itself.  The result holds the returned   *)
(* set, the operations issued, the operation that raised (None if none)    *)
(* and the log records.                                                    *)
(***************************************************************************)
IndexFaults == {"none", "select_folder", "search", "fetch"}

\* Mutant of get_message_ids: the keys are returned although an operation
\* raised.
get_message_ids_keeps(list, box, folder, fault) ==
    LET messages == IF folder \in Range(list) THEN box[folder] ELSE <<>>
        raised ==
            IF folder \notin Range(list) \/ fault = "select_folder"
            THEN "select_folder"
            ELSE IF fault = "search" THEN "search"
            ELSE IF messages # <<>> /\ fault = "fetch" THEN "fetch"
            ELSE None
        ops ==
            IF raised = "select_folder" THEN <<"select_folder">>
            ELSE IF raised = "search" \/ messages = <<>>
                 THEN <<"select_folder", "search">>
            ELSE <<"select_folder", "search", "fetch">>
        ids == {Identity(messages[i].raw) :
                    i \in {j \in 1..Len(messages) : Truthy(Identity(messages[j].raw))}}
    IN  [ids    |-> ids,
         ops    |-> ops,
         raised |-> raised,
         evs    |-> IF raised = "fetch" THEN <<"index-processing", "index-error">>
                    ELSE IF raised # None THEN <<"index-error">>
                    ELSE IF messages = <<>> THEN <<"index-empty">>
                    ELSE <<"index-processing">>]

\* Mutant of get_message_ids: the key of every message is added, also a
\* missing or empty one.
get_message_ids_unfiltered(list, box, folder, fault) ==
    LET messages == IF folder \in Range(list) THEN box[folder] ELSE <<>>
        raised ==
            IF folder \notin Range(list) \/ fault = "select_folder"
            THEN "select_folder"
            ELSE IF fault = "search" THEN "search"
            ELSE IF messages # <<>> /\ fault = "fetch" THEN "fetch"
            ELSE None
        ops ==
            IF raised = "select_folder" THEN <<"select_folder">>
            ELSE IF raised = "search" \/ messages = <<>>
                 THEN <<"select_folder", "search">>
            ELSE <<"select_folder", "search", "fetch">>
        ids == {Identity(messages[i].raw) : i \in 1..Len(messages)}
    IN  [ids    |-> IF raised = None THEN ids ELSE {},
         ops    |-> ops,
         raised |-> raised,
         evs    |-> IF raised = "fetch" THEN <<"index-processing", "index-error">>
                    ELSE IF raised # None THEN <<"index-error">>
                    ELSE IF messages = <<>> THEN <<"index-empty">>
                    ELSE <<"index-processing">>]

\* Mutant of get_message_ids: the last message of the folder is not indexed.
get_message_ids_stale(list, box, folder, fault) ==
    LET messages == IF folder \in Range(list) THEN box[folder] ELSE <<>>
        raised ==
            IF folder \notin Range(list) \/ fault = "select_folder"
            THEN "select_folder"
            ELSE IF fault = "search" THEN "search"
            ELSE IF messages # <<>> /\ fault = "fetch" THEN "fetch"
            ELSE None
        ops ==
            IF raised = "select_folder" THEN <<"select_folder">>
            ELSE IF raised = "search" \/ messages = <<>>
                 THEN <<"select_folder", "search">>
            ELSE <<"select_folder", "search", "fetch">>
        ids == {Identity(messages[i].raw) :
                    i \in {j \in 1..(Len(messages) - 1) : Truthy(Identity(messages[j].raw))}}
    IN  [ids    |-> IF raised = None THEN ids ELSE {},
         ops    |-> ops,
         raised |-> raised,
         evs    |-> IF raised = "fetch" THEN <<"index-processing", "index-error">>
                    ELSE IF raised # None THEN <<"index-error">>
                    ELSE IF messages = <<>> THEN <<"index-empty">>
                    ELSE <<"index-processing">>]

get_message_ids(list, box, folder, fault) ==
    LET messages == IF folder \in Range(list) THEN box[folder] ELSE <<>>
        raised ==
            IF folder \notin Range(list) \/ fault = "select_folder"
            THEN "select_folder"
            ELSE IF fault = "search" THEN "search"
            ELSE IF messages # <<>> /\ fault = "fetch" THEN "fetch"
            ELSE None
        ops ==
            IF raised = "select_folder" THEN <<"select_folder">>
            ELSE IF raised = "search" \/ messages = <<>>
                 THEN <<"select_folder", "search">>
            ELSE <<"select_folder", "search", "fetch">>
        ids == {Identity(messages[i].raw) :
                    i \in {j \in 1..Len(messages) : Truthy(Identity(messages[j].raw))}}
    IN  [ids    |-> IF raised = None THEN ids ELSE {},
         ops    |-> ops,
         raised |-> raised,
         evs    |-> IF raised = "fetch" THEN <<"index-processing", "index-error">>
                    ELSE IF raised # None THEN <<"index-error">>
                    ELSE IF messages = <<>> THEN <<"index-empty">>
                    ELSE <<"index-processing">>]

\* Mutant of NotInTarget: the membership test inverted.
NotInTarget_inverted(message_id, ids) == message_id \in ids

\* Line 158: `message_id not in target_message_ids`.
NotInTarget(message_id, ids) == message_id \notin ids

\* Mutant of CallsCreate: the membership test inverted.
CallsCreate_inverted(missing, dry) == ~missing /\ ~dry

\* Mutant of CallsCreate: the destination listing is not consulted.
CallsCreate_unlisted(missing, dry) == ~dry

\* Mutant of CallsCreate: dry_run is not consulted.
CallsCreate_always(missing, dry) == missing

\* Lines 126-128: create_folder is called for a missing folder unless dry_run.
CallsCreate(missing, dry) == missing /\ ~dry

\* Mutant of AppendArgs: the flags are not passed on.
AppendArgs_noflags(data) == [raw |-> data.raw, flags |-> {}]

\* Lines 148, 156 and 160: the message handed to append is the RFC822 bytes
\* and the FLAGS of the fetched item.
AppendArgs(data) == [raw |-> data.raw, flags |-> data.flags]

\* Mutant of append: the folder is replaced by the new message.
append_overwrite(box, folder, m) == [box EXCEPT ![folder] = <<m>>]

\* Line 160: imap_client2.append(folder_name, raw_message, flags=flags) adds
\* one message at the end of the folder.
append(box, folder, m) == [box EXCEPT ![folder] = Append(@, m)]

\* Mutant of CallsAppend: the dry_run test inverted.
CallsAppend_inverted(copy, dry) == copy /\ dry

\* Lines 158-160: append is called for a message to copy unless dry_run.
CallsAppend(copy, dry) == copy /\ ~dry

(***************************************************************************)
(* main(): parse the arguments, set up logging, call sync_imap_accounts.   *)
(* A new process starts with fresh locals; only the mailboxes persist.     *)
(***************************************************************************)
Main ==
    /\ pc \in {"start", "exited"}
    /\ run < MaxRuns
    /\ run' = run + 1
    /\ dry_run' \in BOOLEAN
    /\ prev' = (pc = "exited" /\ ~dry_run /\ failed = {})
    /\ pc' = "connect"
    /\ imap_client1' = "none"
    /\ imap_client2' = "none"
    /\ folders' = <<>>
    /\ fi' = 0
    /\ target_message_ids' = {}
    /\ items' = <<>>
    /\ mi' = 0
    /\ calls' = <<>>
    /\ log' = <<>>
    /\ failed' = {}
    /\ indexLog' = <<>>
    /\ exitStatus' = -1
    /\ UNCHANGED <<srcList, srcBox, dstList, dstBox>>

\* Lines 107-113: both connection attempts, then the check of the two sessions.
Connect ==
    /\ pc = "connect"
    /\ \E ok1, ok2 \in BOOLEAN :
        LET c1 == connect_to_imap(ok1)
            c2 == connect_to_imap(ok2)
        IN  /\ imap_client1' = c1
            /\ imap_client2' = c2
            /\ calls' = calls \o << Call("src", "connect", 0, "-", NoMsg),
                                   Call("dst", "connect", 0, "-", NoMsg) >>
            /\ failed' = failed
                    \cup (IF ok1 THEN {} ELSE {Fail("src", "connect", 0, TRUE)})
                    \cup (IF ok2 THEN {} ELSE {Fail("dst", "connect", 0, TRUE)})
            /\ IF BothConnected(c1, c2)
               THEN /\ pc' = "list"
                    /\ log' = log \o ConnectLog("host1", ok1) \o ConnectLog("host2", ok2)
               ELSE /\ pc' = "return"
                    /\ log' = Append(log \o ConnectLog("host1", ok1)
                                         \o ConnectLog("host2", ok2),
                                     Entry("ERROR", "connect-error", 0, "-", 0))
    /\ UNCHANGED <<srcList, srcBox, dstList, dstBox, run, dry_run, folders, fi,
                   target_message_ids, items, mi, indexLog, prev, exitStatus>>

\* Lines 116-118, and the loop head of line 120.
ListSource ==
    /\ pc = "list"
    /\ \E ok \in {TRUE} \cup {x \in {FALSE} : CanFail} :
        /\ calls' = Append(calls, Call("src", "list_folders", 0, "-", NoMsg))
        /\ IF ok
           THEN /\ folders' = srcList
                /\ log' = Append(log, Entry("INFO", "folders-found", 0, "-", Len(srcList)))
                /\ failed' = failed
                /\ IF srcList = <<>>
                   THEN pc' = "finally" /\ fi' = 0
                   ELSE pc' = "folder" /\ fi' = 1
           ELSE /\ folders' = folders
                /\ fi' = fi
                /\ failed' = failed \cup {Fail("src", "list_folders", 0, TRUE)}
                /\ log' = Append(log, Entry("ERROR", "sync-error", 0, "-", 0))
                /\ pc' = "finally"
    /\ UNCHANGED <<srcList, srcBox, dstList, dstBox, run, dry_run, imap_client1,
                   imap_client2, target_message_ids, items, mi, indexLog, prev,
                   exitStatus>>

\* Lines 121-130: list the destination folders and create the missing folder.
ReconcileFolder ==
    /\ pc = "folder"
    /\ \E fault \in {"none"} \cup {x \in {"list_folders", "create_folder"} : CanFail} :
        LET folder_name == folders[fi]
            missing == folder_name \notin Range(dstList)
            creates == CallsCreate(missing, dry_run)
            raised  == IF fault = "list_folders" THEN "list_folders"
                       ELSE IF creates /\ fault = "create_folder" THEN "create_folder"
                       ELSE None
            head == Append(log, Entry("INFO", "sync-folder", fi, folder_name, 0))
        IN  /\ calls' = calls
                  \o << Call("dst", "list_folders", fi, "-", NoMsg) >>
                  \o (IF creates /\ raised # "list_folders"
                      THEN << Call("dst", "create_folder", fi, folder_name, NoMsg) >>
                      ELSE <<>>)
            /\ dstList' = IF creates /\ raised = None
                          THEN Append(dstList, folder_name) ELSE dstList
            /\ failed' = IF raised = None THEN failed
                         ELSE failed \cup {Fail("dst", raised, fi, TRUE)}
            /\ log' = IF raised # None
                      THEN Append(head, Entry("ERROR", "sync-error", fi, folder_name, 0))
                      ELSE IF missing
                      THEN Append(head, Entry("INFO", "folder-created", fi, folder_name, 0))
                      ELSE head
            /\ pc' = IF raised = None THEN "index" ELSE "finally"
    /\ UNCHANGED <<srcList, srcBox, dstBox, run, dry_run, imap_client1,
                   imap_client2, folders, fi, target_message_ids, items, mi,
                   indexLog, prev, exitStatus>>

\* Mutant of BuildIndex: the index of the first folder is reused for the
\* later ones.
BuildIndex_cached ==
    /\ pc = "index"
    /\ \E fault \in {x \in IndexFaults : x = "none" \/ CanFail} :
        LET folder_name == folders[fi]
            r == get_message_ids(dstList, dstBox, folder_name, fault)
        IN  IF fi = 1
            THEN /\ target_message_ids' = r.ids
                 /\ indexLog' = Append(indexLog, r.ids)
                 /\ calls' = calls \o [i \in 1..Len(r.ops) |->
                                         Call("dst", r.ops[i], fi, folder_name, NoMsg)]
                 /\ failed' = IF r.raised = None THEN failed
                              ELSE failed \cup {Fail("dst", r.raised, fi, r.raised = fault)}
                 /\ log' = log \o [i \in 1..Len(r.evs) |->
                                Entry(IF r.evs[i] = "index-error" THEN "ERROR" ELSE "INFO",
                                      r.evs[i], fi, folder_name, 0)]
            ELSE /\ indexLog' = Append(indexLog, target_message_ids)
                 /\ UNCHANGED <<target_message_ids, calls, failed, log>>
    /\ pc' = "select"
    /\ UNCHANGED <<srcList, srcBox, dstList, dstBox, run, dry_run, imap_client1,
                   imap_client2, folders, fi, items, mi, prev, exitStatus>>

\* Line 133: target_message_ids = get_message_ids(imap_client2, folder_name).
BuildIndex ==
    /\ pc = "index"
    /\ \E fault \in {x \in IndexFaults : x = "none" \/ CanFail} :
        LET folder_name == folders[fi]
            r == get_message_ids(dstList, dstBox, folder_name, fault)
        IN  /\ target_message_ids' = r.ids
            /\ indexLog' = Append(indexLog, r.ids)
            /\ calls' = calls \o [i \in 1..Len(r.ops) |->
                                    Call("dst", r.ops[i], fi, folder_name, NoMsg)]
            /\ failed' = IF r.raised = None THEN failed
                         ELSE failed \cup {Fail("dst", r.raised, fi, r.raised = fault)}
            /\ log' = log \o [i \in 1..Len(r.evs) |->
                                Entry(IF r.evs[i] = "index-error" THEN "ERROR" ELSE "INFO",
                                      r.evs[i], fi, folder_name, 0)]
    /\ pc' = "select"
    /\ UNCHANGED <<srcList, srcBox, dstList, dstBox, run, dry_run, imap_client1,
                   imap_client2, folders, fi, items, mi, prev, exitStatus>>


\* Mutant of FetchItems: a message whose bytes equal those of an earlier
\* message of the folder is left out.
FetchItems_unique(box, folder) ==
    LET all == [i \in 1..Len(box[folder]) |->
                    [msgid |-> i, raw |-> box[folder][i].raw, flags |-> box[folder][i].flags]]
        First(d) == \A k \in 1..(d.msgid - 1) : all[k].raw # d.raw
    IN  SelectSeq(all, First)

\* Mutant of FetchItems: the first message is returned twice.
FetchItems_twice(box, folder) ==
    LET all == [i \in 1..Len(box[folder]) |->
                    [msgid |-> i, raw |-> box[folder][i].raw, flags |-> box[folder][i].flags]]
    IN  <<all[1]>> \o all

\* The fetch result of a folder: message number -> raw bytes and flags, in
\* the order the server returns them.
FetchItems(box, folder) ==
    [i \in 1..Len(box[folder]) |->
        [msgid |-> i, raw |-> box[folder][i].raw, flags |-> box[folder][i].flags]]

\* Lines 136-145: select the source folder and search it; an empty folder
\* ends the pass (continue).
SelectSource ==
    /\ pc = "select"
    /\ \E fault \in {"none"} \cup {x \in {"select_folder", "search"} : CanFail} :
        LET folder_name == folders[fi]
            messages == srcBox[folder_name]
            last == fi = Len(folders)
        IN  /\ calls' = calls
                  \o << Call("src", "select_folder", fi, folder_name, NoMsg) >>
                  \o (IF fault = "select_folder" THEN <<>>
                      ELSE << Call("src", "search", fi, folder_name, NoMsg) >>)
            /\ failed' = IF fault = "none" THEN failed
                         ELSE failed \cup {Fail("src", fault, fi, TRUE)}
            /\ log' = Append(log,
                        IF fault # "none"
                        THEN Entry("ERROR", "sync-error", fi, folder_name, 0)
                        ELSE IF messages = <<>>
                        THEN Entry("INFO", "no-source-messages", fi, folder_name, 0)
                        ELSE Entry("INFO", "processing", fi, folder_name, Len(messages)))
            /\ pc' = IF fault # "none" THEN "finally"
                     ELSE IF messages # <<>> THEN "fetch"
                     ELSE IF last THEN "finally" ELSE "folder"
            /\ fi' = IF fault = "none" /\ messages = <<>> /\ ~last THEN fi + 1 ELSE fi
    /\ UNCHANGED <<srcList, srcBox, dstList, dstBox, run, dry_run, imap_client1,
                   imap_client2, folders, target_message_ids, items, mi,
                   indexLog, prev, exitStatus>>

\* Line 147: imap_client1.fetch(messages, ['RFC822', 'FLAGS']).
FetchSource ==
    /\ pc = "fetch"
    /\ \E ok \in {TRUE} \cup {x \in {FALSE} : CanFail} :
        LET folder_name == folders[fi]
        IN  /\ calls' = Append(calls, Call("src", "fetch", fi, folder_name, NoMsg))
            /\ IF ok
               THEN /\ items' = FetchItems(srcBox, folder_name)
                    /\ mi' = 1
                    /\ pc' = "message"
                    /\ failed' = failed
                    /\ log' = log
               ELSE /\ items' = items
                    /\ mi' = mi
                    /\ pc' = "finally"
                    /\ failed' = failed \cup {Fail("src", "fetch", fi, TRUE)}
                    /\ log' = Append(log, Entry("ERROR", "sync-error", fi, folder_name, 0))
    /\ UNCHANGED <<srcList, srcBox, dstList, dstBox, run, dry_run, imap_client1,
                   imap_client2, folders, fi, target_message_ids, indexLog, prev,
                   exitStatus>>

\* Lines 148-168: one iteration of the message loop.
ProcessMessage ==
    /\ pc = "message"
    /\ \E ok \in {TRUE} \cup {x \in {FALSE} : CanFail} :
        LET folder_name == folders[fi]
            data == items[mi]
            message_id == Identity(data.raw)
            copy == Truthy(message_id) /\ NotInTarget(message_id, target_message_ids)
            appends == CallsAppend(copy, dry_run)
            raised == appends /\ ~ok
            lastMsg == mi = Len(items)
            lastFolder == fi = Len(folders)
            stored == AppendArgs(data)
        IN  /\ calls' = IF appends
                        THEN Append(calls, Call("dst", "append", fi, folder_name, stored))
                        ELSE calls
            /\ dstBox' = IF appends /\ ~raised
                         THEN append(dstBox, folder_name, stored)
                         ELSE dstBox
            /\ failed' = IF raised THEN failed \cup {Fail("dst", "append", fi, TRUE)}
                         ELSE failed
            /\ log' = Append(log,
                        IF ~Truthy(message_id)
                        THEN Entry("WARNING", "no-message-id", fi, folder_name, data.msgid)
                        ELSE IF raised
                        THEN Entry("ERROR", "sync-error", fi, folder_name, data.msgid)
                        ELSE IF appends
                        THEN Entry("INFO", "copied", fi, folder_name, data.msgid)
                        ELSE IF copy
                        THEN Entry("INFO", "would-copy", fi, folder_name, data.msgid)
                        ELSE Entry("DEBUG", "already-present", fi, folder_name, data.msgid))
            /\ pc' = IF raised THEN "finally"
                     ELSE IF ~lastMsg THEN "message"
                     ELSE IF ~lastFolder THEN "folder"
                     ELSE "finally"
            /\ mi' = IF ~raised /\ ~lastMsg THEN mi + 1 ELSE mi
            /\ fi' = IF ~raised /\ lastMsg /\ ~lastFolder THEN fi + 1 ELSE fi
    /\ UNCHANGED <<srcList, srcBox, dstList, run, dry_run, imap_client1,
                   imap_client2, folders, target_message_ids, items, indexLog,
                   prev, exitStatus>>

\* Lines 173-177: the finally block logs out of the source session and then
\* of the destination session.  A logout that raises leaves the finally
\* block at once: the calls after it are not made and the exception leaves
\* sync_imap_accounts.
LogoutFaults == {"none", "src", "dst"}

Close ==
    /\ pc = "finally"
    /\ \E fault \in LogoutFaults :
        /\ log' = Append(log, Entry("INFO", "closing", 0, "-", 0))
        /\ calls' = calls
              \o << Call("src", "logout", 0, "-", NoMsg) >>
              \o (IF fault = "src" THEN <<>>
                  ELSE << Call("dst", "logout", 0, "-", NoMsg) >>)
        /\ imap_client1' = IF fault = "src" THEN imap_client1 ELSE "closed"
        /\ imap_client2' = IF fault = "none" THEN "closed" ELSE imap_client2
        /\ failed' = IF fault = "none" THEN failed
                     ELSE failed \cup {Fail(fault, "logout", 0, TRUE)}
    /\ pc' = "return"
    /\ UNCHANGED <<srcList, srcBox, dstList, dstBox, run, dry_run, folders, fi,
                   target_message_ids, items, mi, indexLog, prev, exitStatus>>

\* An exception has left sync_imap_accounts: a logout of the finally block
\* raised.
Uncaught == \E f \in failed : f.op = "logout"

\* Lines 196-203: sync_imap_accounts has returned None, main returns and the
\* interpreter exits with status 0; an exception that left
\* sync_imap_accounts leaves main too and the interpreter exits with status 1.
MainReturn ==
    /\ pc = "return"
    /\ pc' = "exited"
    /\ exitStatus' = IF Uncaught THEN 1 ELSE 0
    /\ UNCHANGED <<srcList, srcBox, dstList, dstBox, run, dry_run, imap_client1,
                   imap_client2, folders, fi, target_message_ids, items, mi,
                   calls, log, failed, indexLog, prev>>

Next ==
    \/ Main
    \/ Connect
    \/ ListSource
    \/ ReconcileFolder
    \/ BuildIndex
    \/ SelectSource
    \/ FetchSource
    \/ ProcessMessage
    \/ Close
    \/ MainReturn

Spec == Init /\ [][Next]_vars


(***************************************************************************)
(* Observations on the call trace and the log.                             *)
(***************************************************************************)
CallsOf(ep, op) == {i \in 1..Len(calls) : calls[i].ep = ep /\ calls[i].op = op}

LogOf(ev) == {i \in 1..Len(log) : log[i].ev = ev}

IsPrefix(s, t) == Len(s) <= Len(t) /\ SubSeq(t, 1, Len(s)) = s

\* The operations whose failure get_message_ids swallows.
IndexFailure(f) == f.ep = "dst" /\ f.op \in {"select_folder", "search", "fetch"}

\* An operation of the try block outside get_message_ids has raised, or a
\* connection attempt failed: the folder loop is over.
Aborted == \E f \in failed : ~IndexFailure(f) /\ f.op # "logout"

Returned == pc \in {"return", "exited"}

\* The folder passes whose transfer loop has run to its end.
CompletedPasses ==
    IF pc \in {"finally", "return", "exited"} /\ ~Aborted
    THEN 1..Len(folders)
    ELSE 1..(fi - 1)

\* The messages of pass p that have an identity key absent from the index
\* built in pass p, as <<msgid, raw, flags>> records in source order.
ToCopy(p) ==
    LET box == srcBox[folders[p]]
        all == [i \in 1..Len(box) |->
                    [msgid |-> i, raw |-> box[i].raw, flags |-> box[i].flags]]
        New(d) == Truthy(Identity(d.raw)) /\ Identity(d.raw) \notin indexLog[p]
    IN  SelectSeq(all, New)

\* The append calls of pass p, in order.
AppendsOfPass(p) ==
    LET IsAppend(c) == c.ep = "dst" /\ c.op = "append" /\ c.pass = p
    IN  SelectSeq(calls, IsAppend)

\* The log records `ev` of pass p, in order.
LogOfPass(ev, p) ==
    LET Is(e) == e.ev = ev /\ e.pass = p
    IN  SelectSeq(log, Is)

(***************************************************************************)
(* C1 -- Idempotence: when a non-dry run in which no operation failed is   *)
(* followed, with no other change to either mailbox, by a second non-dry   *)
(* run in which no operation fails, the second run issues no append call.  *)
(***************************************************************************)
C1_Idempotence ==
    (run >= 2 /\ prev /\ ~dry_run /\ failed = {}) => CallsOf("dst", "append") = {}

\* A second run that ended after it found a message the first run copied.
C1_Witness ==
    /\ run >= 2 /\ prev /\ ~dry_run /\ failed = {} /\ pc = "exited"
    /\ LogOf("already-present") # {}
    /\ Total(dstBox, FolderNames) > MaxDstMsgs

(***************************************************************************)
(* C2 -- No-duplication: no append call carries a message whose identity   *)
(* key is a member of the index built for the folder pass of the call.     *)
(***************************************************************************)
C2_NoDuplication ==
    \A i \in CallsOf("dst", "append") :
        /\ calls[i].pass \in 1..Len(indexLog)
        /\ Identity(calls[i].raw) \notin indexLog[calls[i].pass]

\* A non-dry run has examined a message whose key is in the index.
C2_Witness ==
    /\ ~dry_run
    /\ \E i \in LogOf("already-present") :
          Identity(srcBox[log[i].folder][log[i].msgid].raw) \in indexLog[log[i].pass]

(***************************************************************************)
(* C3 -- No-loss: in every folder pass whose transfer loop ran to its end, *)
(* the messages with an identity key absent from the index built in that   *)
(* pass are, in a non-dry run, exactly the messages appended in that pass, *)
(* once each and in source order; in a dry run they are exactly the        *)
(* messages reported as would-copy, once each, and nothing is appended.    *)
(***************************************************************************)
C3_NoLoss ==
    \A p \in CompletedPasses :
        LET want == ToCopy(p)
            got  == AppendsOfPass(p)
            told == LogOfPass("would-copy", p)
            done == LogOfPass("copied", p)
        IN  IF dry_run
            THEN /\ got = <<>>
                 /\ Len(told) = Len(want)
                 /\ \A j \in 1..Len(want) : told[j].msgid = want[j].msgid
            ELSE /\ told = <<>>
                 /\ Len(got) = Len(want)
                 /\ Len(done) = Len(want)
                 /\ \A j \in 1..Len(want) :
                       /\ got[j].raw = want[j].raw
                       /\ got[j].folder = folders[p]
                       /\ done[j].msgid = want[j].msgid

\* A completed non-dry pass that had to copy a message which is not the
\* first of its folder.
C3_Witness ==
    /\ ~dry_run
    /\ \E p \in CompletedPasses :
          /\ ToCopy(p) # <<>>
          /\ ToCopy(p)[Len(ToCopy(p))].msgid > 1


(***************************************************************************)
(* C4 -- Folder-level failure isolation: when the only operations that     *)
(* failed in a run are folder-level ones (the index build, selecting the   *)
(* folder on the source, listing or creating the folder on the             *)
(* destination), every folder of the source listing has been taken up by   *)
(* the time the run ends.                                                  *)
(***************************************************************************)
FolderLevel(f) ==
    \/ IndexFailure(f)
    \/ f.ep = "dst" /\ f.op \in {"list_folders", "create_folder"}
    \/ f.ep = "src" /\ f.op = "select_folder"

C4_FolderIsolation ==
    (pc = "exited" /\ failed # {} /\ \A f \in failed : FolderLevel(f))
        => \A p \in 1..Len(folders) : LogOfPass("sync-folder", p) # <<>>

(***************************************************************************)
(* C5 -- Message-level failure isolation: when the only operation that     *)
(* failed in a run is an append, every message of every folder of the      *)
(* source listing has been examined by the time the run ends.              *)
(***************************************************************************)
Examined(p, j) == \E i \in 1..Len(log) : log[i].pass = p /\ log[i].msgid = j
                                        /\ log[i].ev \in {"no-message-id", "copied",
                                              "would-copy", "already-present", "sync-error"}

C5_MessageIsolation ==
    (pc = "exited" /\ failed # {} /\ \A f \in failed : f.op = "append")
        => \A p \in 1..Len(folders) :
              \A j \in 1..Len(srcBox[folders[p]]) : Examined(p, j)

(***************************************************************************)
(* C6 -- Session release on every exit path: when the run has ended, no    *)
(* session that was opened is still open.                                  *)
(***************************************************************************)
C6_SessionsReleased ==
    Returned => (imap_client1 # "open" /\ imap_client2 # "open")

(***************************************************************************)
(* C7 -- Session cleanup after the folder loop: when a run in which both   *)
(* connections succeeded has ended, a logout has been attempted on the     *)
(* source session and on the destination session, once each and as the     *)
(* last two operations of the run, whether or not an operation of the loop *)
(* raised.                                                                 *)
(***************************************************************************)
C7_LogoutAfterLoop ==
    (Returned /\ BothConnected(imap_client1, imap_client2))
        => /\ Len(calls) >= 2
           /\ calls[Len(calls) - 1].ep = "src" /\ calls[Len(calls) - 1].op = "logout"
           /\ calls[Len(calls)].ep = "dst" /\ calls[Len(calls)].op = "logout"
           /\ Cardinality(CallsOf("src", "logout")) = 1
           /\ Cardinality(CallsOf("dst", "logout")) = 1

(***************************************************************************)
(* C8 -- Dry run issues no mutation: while dry_run is set no create_folder *)
(* and no append call is issued and no step changes the destination's      *)
(* folder listing or the messages of any destination folder; a message     *)
(* that would be copied is reported as would-copy in the step that         *)
(* examines it.                                                            *)
(***************************************************************************)
C8_DryRunStep ==
    dry_run' =>
        /\ dstList' = dstList
        /\ dstBox' = dstBox
        /\ CallsOf("dst", "create_folder")' = {}
        /\ CallsOf("dst", "append")' = {}
        /\ (pc = "message" /\ Truthy(Identity(items[mi].raw))
                /\ Identity(items[mi].raw) \notin target_message_ids)
              => /\ Len(log') = Len(log) + 1
                 /\ log'[Len(log')].ev = "would-copy"
                 /\ log'[Len(log')].msgid = items[mi].msgid

C8_DryRun == [][C8_DryRunStep]_vars

\* A dry run that met a folder missing on the destination and reported a
\* would-be copy.
C8_Witness ==
    /\ dry_run /\ pc = "exited"
    /\ LogOf("folder-created") # {}
    /\ LogOf("would-copy") # {}

(***************************************************************************)
(* C9 -- Connection failure is fatal and inert: a failed connection        *)
(* attempt yields no session and does not keep the other attempt from      *)
(* being made; once either attempt has failed the run issues no operation  *)
(* on either endpoint, logs the connection error and returns.              *)
(***************************************************************************)
C9_ConnectFailureInert ==
    (\E f \in failed : f.op = "connect")
        => /\ Returned
           /\ \A f \in failed : f.op = "connect"
                  => (IF f.ep = "src" THEN imap_client1 ELSE imap_client2) = "none"
           /\ Len(calls) = 2
           /\ \A i \in 1..Len(calls) : calls[i].op = "connect"
           /\ CallsOf("src", "connect") # {} /\ CallsOf("dst", "connect") # {}
           /\ log # <<>>
           /\ log[Len(log)].ev = "connect-error" /\ log[Len(log)].level = "ERROR"
           /\ \A i \in 1..Len(log) :
                 log[i].ev \in {"connecting", "connected", "connect-failed", "connect-error"}

\* A run in which exactly one connection attempt failed has returned.
C9_Witness ==
    /\ Returned
    /\ Cardinality({f \in failed : f.op = "connect"}) = 1

(***************************************************************************)
(* C10 -- Exit status: the process ends with status 0 when both            *)
(* connections succeeded and with a non-zero status when a connection      *)
(* attempt failed.                                                         *)
(***************************************************************************)
C10_ExitStatus ==
    pc = "exited" => (exitStatus = 0 <=> ~\E f \in failed : f.op = "connect")

(***************************************************************************)
(* C11 -- Folder creation: in a non-dry run, the step that takes up a      *)
(* source folder and gets the destination listing issues create_folder for *)
(* that folder exactly when the listing does not hold its name; no         *)
(* create_folder call is ever issued for a name the listing holds, for     *)
(* another folder than the one taken up, or in a dry run; a create_folder  *)
(* that succeeds puts the name into the listing.                           *)
(***************************************************************************)
NewCreates == CallsOf("dst", "create_folder")' \ CallsOf("dst", "create_folder")

C11_Step ==
    /\ (pc = "folder" /\ ~dry_run /\ Fail("dst", "list_folders", fi, TRUE) \notin failed')
          => ((NewCreates # {}) <=> (folders[fi] \notin Range(dstList)))
    /\ \A i \in NewCreates :
          /\ pc = "folder" /\ ~dry_run
          /\ calls'[i].folder = folders[fi]
          /\ calls'[i].folder \notin Range(dstList)
          /\ Cardinality(NewCreates) = 1
          /\ (failed' = failed => calls'[i].folder \in Range(dstList'))

C11_FolderCreation == [][C11_Step]_vars

\* A non-dry run that created one folder and found another one present.
C11_Witness ==
    /\ ~dry_run /\ pc = "exited"
    /\ CallsOf("dst", "create_folder") # {}
    /\ \E p \in 1..Len(folders) :
          /\ LogOfPass("sync-folder", p) # <<>>
          /\ \A i \in CallsOf("dst", "create_folder") : calls[i].pass # p

(***************************************************************************)
(* C12 -- Missing-identity messages are never copied: in dry-run and in    *)
(* normal mode alike, the step that examines a source message whose        *)
(* Message-ID header is missing or empty logs one warning for it, issues   *)
(* no call, changes neither mailbox, raises nothing and goes on to the     *)
(* next message (or folder); no append call ever carries such a message    *)
(* and no copied or would-copy record ever names one.                      *)
(***************************************************************************)
NoIdentity(raw) == Identity(raw) = None \/ Identity(raw) = ""

C12_Step ==
    /\ \A i \in CallsOf("dst", "append")' : ~NoIdentity(calls'[i].raw)
    /\ \A i \in (LogOf("copied") \cup LogOf("would-copy"))' :
          ~NoIdentity(srcBox[log'[i].folder][log'[i].msgid].raw)
    /\ (pc = "message" /\ NoIdentity(items[mi].raw))
          => /\ log' = Append(log, Entry("WARNING", "no-message-id", fi,
                                         folders[fi], items[mi].msgid))
             /\ calls' = calls /\ dstBox' = dstBox /\ failed' = failed
             /\ IF mi < Len(items) THEN pc' = "message" /\ mi' = mi + 1 /\ fi' = fi
                ELSE IF fi < Len(folders) THEN pc' = "folder" /\ fi' = fi + 1
                ELSE pc' = "finally"

C12_NoIdentitySkipped == [][C12_Step]_vars

\* A message without identity was skipped and a later message of the same
\* folder was examined, in a dry run or in a normal run.
C12_WitnessIn(dry) ==
    /\ dry_run = dry
    /\ \E i, k \in 1..Len(log) :
          /\ i < k
          /\ log[i].ev = "no-message-id"
          /\ log[k].pass = log[i].pass
          /\ log[k].ev \in {"copied", "would-copy"}

C12_Witness == C12_WitnessIn(FALSE) /\ srcBox["INBOX"] # <<>>
                  /\ Identity(srcBox["INBOX"][1].raw) = ""

(***************************************************************************)
(* C13 -- Content and flags are preserved: every append call is issued     *)
(* while a source folder is being transferred, names that folder, and      *)
(* carries exactly the raw bytes and exactly the flag set of the fetched   *)
(* source message under examination; when the append succeeds the          *)
(* destination folder of that name ends with a message of the same         *)
(* identity key and the same flags.                                        *)
(***************************************************************************)
NewAppends == CallsOf("dst", "append")' \ CallsOf("dst", "append")

C13_Step ==
    \A i \in NewAppends :
        LET c   == calls'[i]
            src == srcBox[folders[fi]][items[mi].msgid]
        IN  /\ pc = "message"
            /\ Cardinality(NewAppends) = 1
            /\ c.folder = folders[fi] /\ c.folder \in Range(srcList)
            /\ c.raw = items[mi].raw /\ c.flags = items[mi].flags
            /\ c.raw = src.raw /\ c.flags = src.flags
            /\ failed' = failed =>
                  LET box == dstBox'[c.folder]
                  IN  /\ Len(box) = Len(dstBox[c.folder]) + 1
                      /\ box[Len(box)].raw = src.raw
                      /\ Identity(box[Len(box)].raw) = Identity(src.raw)
                      /\ box[Len(box)].flags = src.flags

C13_ContentAndFlags == [][C13_Step]_vars

\* A run has copied a flagged message and an unflagged one.
C13_Witness ==
    /\ pc = "exited"
    /\ \E i, k \in CallsOf("dst", "append") :
          /\ calls[i].flags = {"\\Seen"} /\ calls[k].flags = {}
    /\ \E f \in FolderNames : \E j \in 1..Len(dstBox[f]) :
          dstBox[f][j].flags = {"\\Seen"} /\ j > MaxDstMsgs

(***************************************************************************)
(* C14 -- Index build failure is non-fatal: when selecting the destination *)
(* folder, or the search or the fetch on it, fails, the index of the pass  *)
(* is the empty set, the failure is logged as an error and the run goes on *)
(* to select the source folder of the same pass; in that pass every source *)
(* message with an identity key is treated as new: appended in a normal    *)
(* run, reported as would-copy in a dry run.                               *)
(***************************************************************************)
IndexFailed(p) == \E f \in failed : IndexFailure(f) /\ f.pass = p

C14_Step ==
    /\ (pc = "index" /\ failed' # failed)
          => /\ \A f \in failed' \ failed : IndexFailure(f) /\ f.pass = fi
             /\ target_message_ids' = {}
             /\ indexLog' = Append(indexLog, {})
             /\ IsPrefix(log, log') /\ Len(log') > Len(log)
             /\ log'[Len(log')] = Entry("ERROR", "index-error", fi, folders[fi], 0)
             /\ pc' = "select" /\ fi' = fi
    /\ (IndexFailed(fi) /\ pc \in {"select", "fetch", "message"})
          => target_message_ids = {}
    /\ (IndexFailed(fi) /\ pc = "message" /\ ~NoIdentity(items[mi].raw))
          => IF dry_run
             THEN /\ log' = Append(log, Entry("INFO", "would-copy", fi, folders[fi],
                                              items[mi].msgid))
                  /\ calls' = calls
             ELSE /\ Len(calls') = Len(calls) + 1
                  /\ calls'[Len(calls')].op = "append"
                  /\ calls'[Len(calls')].raw = items[mi].raw

C14_IndexFailureNonFatal == [][C14_Step]_vars

\* The search on a destination folder failed and a message whose key the
\* folder already held was appended in that pass.
C14_Witness ==
    /\ pc = "exited"
    /\ \E f \in failed : \E i \in CallsOf("dst", "append") :
          /\ IndexFailure(f) /\ f.op = "search" /\ f.pass = calls[i].pass
          /\ \E j \in 1..(Len(dstBox[calls[i].folder]) - 1) :
                /\ j <= MaxDstMsgs
                /\ Identity(dstBox[calls[i].folder][j].raw) = Identity(calls[i].raw)

(***************************************************************************)
(* C15 -- Index content: when select, search and fetch succeed, the index  *)
(* built for a folder is exactly the set of the Message-ID values of the   *)
(* folder's messages that are neither missing nor empty; for a folder with *)
(* no messages it is the empty set and no fetch is issued.                 *)
(***************************************************************************)
KeysOf(box) ==
    {Identity(box[j].raw) : j \in 1..Len(box)} \ {None, ""}

C15_Step ==
    (pc = "index" /\ failed' = failed) =>
        LET box == dstBox[folders[fi]]
            new == SubSeq(calls', Len(calls) + 1, Len(calls'))
            ops == [i \in 1..Len(new) |-> new[i].op]
        IN  /\ target_message_ids' = KeysOf(box)
            /\ indexLog' = Append(indexLog, KeysOf(box))
            /\ \A i \in 1..Len(new) : new[i].ep = "dst" /\ new[i].folder = folders[fi]
            /\ IF box = <<>>
               THEN /\ target_message_ids' = {}
                    /\ ops = <<"select_folder", "search">>
                    /\ log'[Len(log')].ev = "index-empty"
                    /\ log'[Len(log')].level = "INFO"
               ELSE ops = <<"select_folder", "search", "fetch">>

C15_IndexContent == [][C15_Step]_vars

\* One run built the empty index for an empty folder, and a non-empty index
\* for a folder that also holds a message without identity.
C15_Witness ==
    /\ failed = {}
    /\ LogOf("index-empty") # {}
    /\ \E p \in 1..Len(indexLog) :
          /\ indexLog[p] # {}
          /\ \E j \in 1..Len(dstBox[folders[p]]) : NoIdentity(dstBox[folders[p]][j].raw)

(***************************************************************************)
(* C16 -- The destination only grows: in every step of every run the       *)
(* destination's folder listing and the message sequence of each           *)
(* destination folder keep what they held, in place and unchanged, and at  *)
(* most gain entries at the end; the only mutating operations issued on    *)
(* the destination are create_folder and append; the source's listing and  *)
(* messages never change and only reading operations are issued on it.     *)
(***************************************************************************)
ReadingOps == {"connect", "list_folders", "select_folder", "search", "fetch", "logout"}

C16_Step ==
    /\ IsPrefix(dstList, dstList')
    /\ \A f \in FolderNames : IsPrefix(dstBox[f], dstBox'[f])
    /\ srcList' = srcList /\ srcBox' = srcBox
    /\ \A i \in 1..Len(calls') :
          IF calls'[i].ep = "src"
          THEN calls'[i].op \in ReadingOps
          ELSE calls'[i].op \in ReadingOps \cup {"create_folder", "append"}

C16_DestinationGrows == [][C16_Step]_vars

\* A second run has ended after a folder was created and a message was
\* appended to a folder that already held one.
C16_Witness ==
    /\ run = 2 /\ pc = "exited"
    /\ CallsOf("dst", "create_folder") # {}
    /\ \E i \in CallsOf("dst", "append") : Len(dstBox[calls[i].folder]) >= 2

(***************************************************************************)
(* C17 -- Single pass over the source: when a run in which no operation    *)
(* failed has ended, it has made one connection attempt per endpoint and   *)
(* one request for the source folder listing, has taken up the listed      *)
(* source folders once each in listing order, has selected and searched    *)
(* each of them once, has fetched each non-empty one once, and has         *)
(* examined the messages of each folder once each in order.                *)
(***************************************************************************)
ExaminedOfPass(p) ==
    LET Is(e) == e.pass = p /\ e.ev \in {"no-message-id", "copied", "would-copy",
                                         "already-present", "sync-error"}
    IN  SelectSeq(log, Is)

CallsOfPass(ep, op, p) == {i \in CallsOf(ep, op) : calls[i].pass = p}

C17_SinglePass ==
    (pc = "exited" /\ failed = {}) =>
        LET IsTaken(e) == e.ev = "sync-folder"
            taken == SelectSeq(log, IsTaken)
        IN  /\ Cardinality(CallsOf("src", "connect")) = 1
            /\ Cardinality(CallsOf("dst", "connect")) = 1
            /\ Cardinality(CallsOf("src", "list_folders")) = 1
            /\ Len(taken) = Len(srcList)
            /\ \A p \in 1..Len(srcList) :
                  LET box == srcBox[srcList[p]]
                      seen == ExaminedOfPass(p)
                  IN  /\ taken[p].folder = srcList[p] /\ taken[p].pass = p
                      /\ Cardinality(CallsOfPass("src", "select_folder", p)) = 1
                      /\ Cardinality(CallsOfPass("src", "search", p)) = 1
                      /\ Cardinality(CallsOfPass("src", "fetch", p))
                            = (IF box = <<>> THEN 0 ELSE 1)
                      /\ \A i \in CallsOfPass("src", "select_folder", p) :
                            calls[i].folder = srcList[p]
                      /\ Len(seen) = Len(box)
                      /\ \A j \in 1..Len(box) : seen[j].msgid = j

\* A failure-free run over two folders, one of them holding two messages,
\* has ended.
C17_Witness ==
    /\ pc = "exited" /\ failed = {}
    /\ Len(srcList) = 2
    /\ \E p \in 1..2 : Len(srcBox[srcList[p]]) = 2 /\ Len(ExaminedOfPass(p)) = 2

(***************************************************************************)
(* C18 -- Create, then index, then transfer, one folder at a time: the     *)
(* operations of the folder passes are issued pass after pass, and within  *)
(* a pass the destination listing comes first, then the create_folder call *)
(* if any, then the operations of the index build on the destination, then *)
(* the operations on the source folder, then the appends; every index      *)
(* build selects the destination folder anew and, when nothing fails in    *)
(* it, yields the keys the folder holds at that moment.                    *)
(***************************************************************************)
Phase(c) ==
    IF c.ep = "dst"
    THEN CASE c.op = "list_folders"  -> 1
           [] c.op = "create_folder" -> 2
           [] c.op = "append"        -> 5
           [] OTHER                  -> 3
    ELSE 4

C18_Order ==
    /\ \A i, k \in 1..Len(calls) :
          (i < k /\ calls[i].pass >= 1 /\ calls[k].pass >= 1)
             => /\ calls[i].pass <= calls[k].pass
                /\ calls[i].pass = calls[k].pass => Phase(calls[i]) <= Phase(calls[k])
    /\ \A i \in 1..Len(calls) :
          calls[i].pass >= 1 =>
             /\ calls[i].pass <= Len(folders)
             /\ Phase(calls[i]) \in {2, 3, 4, 5} => calls[i].folder = folders[calls[i].pass]
    /\ \A p \in 1..Len(indexLog) :
          /\ Cardinality(CallsOfPass("dst", "select_folder", p)) = 1
          /\ Cardinality(CallsOfPass("dst", "list_folders", p)) = 1

C18_Step ==
    /\ C18_Order'
    /\ (pc = "index" /\ failed' = failed)
          => target_message_ids' = KeysOf(dstBox[folders[fi]])
    /\ (pc = "message") => target_message_ids = indexLog[fi]

C18_CreateIndexTransfer == [][C18_Step]_vars

\* A normal run took up the same folder name twice: the first pass created
\* the folder and appended to it, and the second pass built another index.
C18_Witness ==
    /\ pc = "exited" /\ ~dry_run
    /\ Len(indexLog) = 2 /\ folders[1] = folders[2]
    /\ indexLog[1] # indexLog[2]
    /\ CallsOfPass("dst", "create_folder", 1) # {}
    /\ CallsOfPass("dst", "append", 1) # {}

(***************************************************************************)
(* C19 -- The destination index is a snapshot that the transfer pass does  *)
(* not update: no step of the message loop changes the index; in every     *)
(* pass of a normal run whose message loop ran to its end, each identity   *)
(* key absent from the pass's index has been appended as many times as the *)
(* source folder holds messages of that key (twice for two such messages), *)
(* and the destination folder holds at least as many messages of that key; *)
(* a following failure-free normal run appends nothing.                    *)
(***************************************************************************)
CountKey(box, key) == Cardinality({j \in 1..Len(box) : Identity(box[j].raw) = key})

C19_Snapshot ==
    /\ ~dry_run =>
          \A p \in CompletedPasses :
              \A j \in 1..Len(srcBox[folders[p]]) :
                  LET key == Identity(srcBox[folders[p]][j].raw)
                  IN  (~NoIdentity(srcBox[folders[p]][j].raw) /\ key \notin indexLog[p])
                         => /\ CountKey(AppendsOfPass(p), key)
                                  = CountKey(srcBox[folders[p]], key)
                            /\ CountKey(dstBox[folders[p]], key)
                                  >= CountKey(srcBox[folders[p]], key)
    /\ (run >= 2 /\ prev /\ ~dry_run /\ failed = {})
          => CallsOf("dst", "append") = {}

C19_Step ==
    /\ C19_Snapshot'
    /\ pc = "message" => target_message_ids' = target_message_ids

C19_IndexIsSnapshot == [][C19_Step]_vars

\* A failure-free normal run has ended, after a failure-free normal run,
\* over a source folder with two messages of one key, both of which the
\* destination folder now holds and the index of this run held.
C19_Witness ==
    /\ run >= 2 /\ prev /\ ~dry_run /\ failed = {} /\ pc = "exited"
    /\ \E p \in 1..Len(folders) :
          LET src == srcBox[folders[p]]
          IN  /\ Len(src) = 2
              /\ ~NoIdentity(src[1].raw)
              /\ Identity(src[1].raw) = Identity(src[2].raw)
              /\ CountKey(dstBox[folders[p]], Identity(src[1].raw)) = 2
              /\ Len(LogOfPass("already-present", p)) = 2

(***************************************************************************)
(* C20 -- At most one creation per folder name: within a run no folder     *)
(* name is the subject of more than one create_folder call, also when the  *)
(* source listing holds the name more than once; a name that a             *)
(* create_folder call has put into the destination listing is in it once.  *)
(***************************************************************************)
CreatesOf(name) == {i \in CallsOf("dst", "create_folder") : calls[i].folder = name}

C20_OneCreationPerName ==
    \A name \in FolderNames :
        /\ Cardinality(CreatesOf(name)) <= 1
        /\ Cardinality({j \in 1..Len(dstList) : dstList[j] = name}) <= 1

\* A failure-free normal run over a listing that holds one name twice has
\* created that folder in its first pass and ended.
C20_Witness ==
    /\ pc = "exited" /\ ~dry_run /\ failed = {}
    /\ Len(folders) = 2 /\ folders[1] = folders[2]
    /\ Cardinality(CreatesOf(folders[1])) = 1
    /\ LogOfPass("sync-folder", 2) # <<>>

====
